---- MODULE Spec2Model ----
(***************************************************************************)
(* A model of the event-projection engine of src/src/projector.rs.         *)
(*                                                                         *)
(* A Projector holds one applier, a pure function (entity, event) ->       *)
(* entity supplied by the caller.  stream_entities wraps an event source   *)
(* in a lazy scan whose accumulator starts at TEntity::default();          *)
(* project_last_state and match_from_stream drive that scan with           *)
(* Iterator::last and Iterator::find.                                      *)
(*                                                                         *)
(* The applier is an arbitrary pure function: the model fixes its value    *)
(* at an argument pair the first time the pair is evaluated and keeps it   *)
(* from then on, so `applier` is the part of its graph evaluated so far.   *)
(* One action is one call of next() on the iterator a call drives.         *)
(*                                                                         *)
(* The visit-report aggregator of src/src/encounter.rs is modelled beside  *)
(* it: the applier of encounter_projector folds the visit events of a      *)
(* report into an Encounter with apply_period and apply_participant.       *)
(***************************************************************************)
EXTENDS Integers, Sequences, FiniteSets, TLC

\* ------------------------------------------------------------------ bounds
MaxLen == 4        \* longest event sequence of a single call
MaxLenMulti == 2   \* longest event sequence when several calls are made
MaxCalls == 2      \* successive calls on one Projector
NumEntity == 2     \* distinct entity values
NumEvent == 2      \* distinct event values
NumTs == 2         \* distinct visit timestamps
NumCaregiver == 2  \* distinct caregiver ids
MaxVisits == 3     \* visit events folded into one encounter projection

\* ------------------------------------------------------------------- types
Default == 0                       \* TEntity::default()
Entities == 0 .. (NumEntity - 1)   \* TEntity
Events == 1 .. NumEvent            \* TEvent
Runs == {"a", "b"}                 \* the call sites using the one Projector

None == <<>>                       \* Option::None
Some(x) == <<x>>                   \* Option::Some(x)

SeqsUpTo(S, n) == UNION {[1 .. k -> S] : k \in 0 .. n}

VARIABLES
    applier,    \* the Projector's applier: its graph as far as evaluated
    events,     \* events[r]: the event sequence call site r supplies
    run,        \* run[r]: the call in progress (or last made) at call site r
    callsLeft,  \* callsLeft[r]: calls call site r may still start
    log,        \* the calls that ran to their end, oldest first
    enc         \* the encounter projection (encounter.rs), see EncInit

vars == <<applier, events, run, callsLeft, log, enc>>

\* A call that has not been made.  src/state are the Scan adapter's fields;
\* out, last, seen, matcher, result belong to the consumer driving it;
\* pulled, applied, tested record what the call has done so far.
IdleRun ==
    [op |-> "idle", src |-> <<>>, state |-> Default, out |-> <<>>,
     last |-> None, seen |-> {}, matcher |-> {},
     pulled |-> <<>>, applied |-> <<>>, tested |-> <<>>,
     result |-> None, done |-> FALSE]

\* ----------------------------------------------------------- the applier
\* The values (self.applier)(state, &cur) may return at the pair arg.
ApplierValues(arg) ==
    IF arg \in DOMAIN applier THEN {applier[arg]} ELSE Entities

\* The applier's graph after it returned v at arg.
Evaluated(arg, v) ==
    IF arg \in DOMAIN applier THEN applier ELSE applier @@ (arg :> v)

\* -------------------------------------------------------- stream_entities
\* (variant: the scan resumes from the accumulator the call site's previous
\* call left behind)
ScanInitCarried(r) == run[r].state

\* stream.scan(TEntity::default(), ...): the accumulator a new scan holds.
ScanInit(r) == Default

\* (variant: every scan works on the one accumulator of call site "a")
ScanArgShared(it) == <<run["a"].state, Head(it.src)>>

\* The pair the scan closure hands to the applier on the next event.
ScanArg(it) == <<it.state, Head(it.src)>>

\* (variant: the closure returns the new state without storing it)
ScanNextNoStore(it, v) ==
    [it EXCEPT !.src = Tail(it.src),
               !.pulled = Append(it.pulled, Head(it.src)),
               !.applied = Append(it.applied, ScanArg(it))]

\* One next() of the scan when the source yields an event and the applier
\* returns v: *state = v; Some(state.clone()).
ScanNext(it, v) ==
    [it EXCEPT !.src = Tail(it.src),
               !.state = v,
               !.pulled = Append(it.pulled, Head(it.src)),
               !.applied = Append(it.applied, ScanArg(it))]

\* (variant: the scan takes the first event from the source when built)
NewRunPrefetch(r, op, m) ==
    [IdleRun EXCEPT !.op = op, !.state = ScanInit(r), !.matcher = m,
                    !.src = IF events[r] = <<>> THEN <<>> ELSE Tail(events[r]),
                    !.pulled = IF events[r] = <<>> THEN <<>>
                               ELSE <<Head(events[r])>>]

\* The call site starts a call `op` on its event sequence: the scan is
\* built around the source and nothing is pulled.
NewRun(r, op, m) ==
    [IdleRun EXCEPT !.op = op, !.src = events[r], !.state = ScanInit(r),
                    !.matcher = m]

CanStart(r) ==
    /\ callsLeft[r] > 0
    /\ run[r].op = "idle" \/ run[r].done

Start(r, op, m) ==
    /\ CanStart(r)
    /\ run' = [run EXCEPT ![r] = NewRun(r, op, m)]
    /\ callsLeft' = [callsLeft EXCEPT ![r] = @ - 1]
    /\ UNCHANGED <<applier, events, log, enc>>

Running(r, op) == run[r].op = op /\ ~run[r].done

\* The log once the call at r has returned res.  A result is kept as a
\* sequence: the states a stream yielded, the one state project_last_state
\* returned, the Option match_from_stream returned.
Logged(r, res) ==
    Append(log, [op |-> run[r].op, events |-> events[r],
                 matcher |-> run[r].matcher, result |-> res])

StartStream(r) == Start(r, "stream", {})

\* The caller pulls one state from the iterator stream_entities returned.
NextStream(r) ==
    /\ Running(r, "stream")
    /\ IF run[r].src = <<>>
       THEN /\ run' = [run EXCEPT ![r].done = TRUE, ![r].result = run[r].out]
            /\ log' = Logged(r, run[r].out)
            /\ UNCHANGED applier
       ELSE \E v \in ApplierValues(ScanArg(run[r])) :
                /\ applier' = Evaluated(ScanArg(run[r]), v)
                /\ run' = [run EXCEPT ![r] =
                             [ScanNext(run[r], v) EXCEPT !.out = Append(@, v)]]
                /\ UNCHANGED log
    /\ UNCHANGED <<events, callsLeft, enc>>

\* The caller stops pulling and drops the iterator.
DropStream(r) ==
    /\ Running(r, "stream")
    /\ run[r].src # <<>>
    /\ run' = [run EXCEPT ![r].done = TRUE, ![r].result = run[r].out]
    /\ UNCHANGED <<applier, events, callsLeft, log, enc>>

\* ----------------------------------------------------- project_last_state
StartLast(r) == Start(r, "last", {})

\* (variant: the first item is kept)
LastFoldFirst(last, item) == IF last = None THEN Some(item) ELSE last

\* Iterator::last keeps the item it was handed most recently.
LastFold(last, item) == Some(item)

\* (variant: the default is returned whatever the option holds)
UnwrapOrAlways(opt, d) == d

\* Option::unwrap_or
UnwrapOr(opt, d) == IF opt = None THEN d ELSE opt[1]

\* One round of .last() over the scan: the next state replaces the one
\* kept; when the scan ends the call returns the kept state, or the
\* default when there is none.
StepLast(r) ==
    /\ Running(r, "last")
    /\ IF run[r].src = <<>>
       THEN LET res == Some(UnwrapOr(run[r].last, Default)) IN
            /\ run' = [run EXCEPT ![r].done = TRUE, ![r].result = res]
            /\ log' = Logged(r, res)
            /\ UNCHANGED applier
       ELSE \E v \in ApplierValues(ScanArg(run[r])) :
                /\ applier' = Evaluated(ScanArg(run[r]), v)
                /\ run' = [run EXCEPT ![r] =
                             [ScanNext(run[r], v) EXCEPT
                                 !.last = LastFold(run[r].last, v)]]
                /\ UNCHANGED log
    /\ UNCHANGED <<events, callsLeft, enc>>

\* ------------------------------------------------------ match_from_stream
\* A predicate over entities is the set of entities it holds for.
Matchers == SUBSET Entities

StartMatch(r, m) == Start(r, "match", m)

\* (variant: the predicate's answer is negated)
MatchesInverted(m, e) == e \notin m

\* matcher(e)
Matches(m, e) == e \in m

\* (variant: the search goes on after a match)
FindNeverStops(m, e) == FALSE

\* Iterator::find stops at the first item the predicate holds for.
FindStops(m, e) == Matches(m, e)

\* (variant: the last matching state is returned, as .filter(..).last())
StepMatchLast(r) ==
    /\ Running(r, "match")
    /\ IF run[r].src = <<>>
       THEN /\ run' = [run EXCEPT ![r].done = TRUE, ![r].result = run[r].last]
            /\ log' = Logged(r, run[r].last)
            /\ UNCHANGED applier
       ELSE \E v \in ApplierValues(ScanArg(run[r])) :
                /\ applier' = Evaluated(ScanArg(run[r]), v)
                /\ run' = [run EXCEPT ![r] =
                             [ScanNext(run[r], v) EXCEPT
                                 !.tested = Append(@, v),
                                 !.last = IF Matches(run[r].matcher, v)
                                          THEN Some(v) ELSE @]]
                /\ UNCHANGED log
    /\ UNCHANGED <<events, callsLeft, enc>>

\* (variant: the scan yields its seed before the first event, so the seed
\* is tested too)
StepMatchSeedFirst(r) ==
    /\ Running(r, "match")
    /\ IF run[r].tested = <<>>
       THEN /\ IF FindStops(run[r].matcher, run[r].state)
               THEN /\ run' = [run EXCEPT ![r].tested = <<run[r].state>>,
                                          ![r].done = TRUE,
                                          ![r].result = Some(run[r].state)]
                    /\ log' = Logged(r, Some(run[r].state))
               ELSE /\ run' = [run EXCEPT ![r].tested = <<run[r].state>>]
                    /\ UNCHANGED log
            /\ UNCHANGED applier
       ELSE IF run[r].src = <<>>
       THEN /\ run' = [run EXCEPT ![r].done = TRUE, ![r].result = None]
            /\ log' = Logged(r, None)
            /\ UNCHANGED applier
       ELSE \E v \in ApplierValues(ScanArg(run[r])) :
                /\ applier' = Evaluated(ScanArg(run[r]), v)
                /\ LET nxt == [ScanNext(run[r], v) EXCEPT
                                  !.tested = Append(@, v)] IN
                   IF FindStops(run[r].matcher, v)
                   THEN /\ run' = [run EXCEPT ![r] =
                              [nxt EXCEPT !.done = TRUE, !.result = Some(v)]]
                        /\ log' = Logged(r, Some(v))
                   ELSE /\ run' = [run EXCEPT ![r] = nxt]
                        /\ UNCHANGED log
    /\ UNCHANGED <<events, callsLeft, enc>>

\* One round of .find(|e| matcher(e)) over the scan: the next state is
\* tested; a match ends the call with Some(state), the end of the scan
\* ends it with None.
StepMatch(r) ==
    /\ Running(r, "match")
    /\ IF run[r].src = <<>>
       THEN /\ run' = [run EXCEPT ![r].done = TRUE, ![r].result = None]
            /\ log' = Logged(r, None)
            /\ UNCHANGED applier
       ELSE \E v \in ApplierValues(ScanArg(run[r])) :
                /\ applier' = Evaluated(ScanArg(run[r]), v)
                /\ LET nxt == [ScanNext(run[r], v) EXCEPT
                                  !.tested = Append(@, v)] IN
                   IF FindStops(run[r].matcher, v)
                   THEN /\ run' = [run EXCEPT ![r] =
                              [nxt EXCEPT !.done = TRUE, !.result = Some(v)]]
                        /\ log' = Logged(r, Some(v))
                   ELSE /\ run' = [run EXCEPT ![r] = nxt]
                        /\ UNCHANGED log
    /\ UNCHANGED <<events, callsLeft, enc>>

\* --------------------------------------------------- versions_from_stream
\* projector.rs defines no versions_from_stream; the operation is modelled
\* from spec.md section 4.5 as a filter over the scan of stream_entities
\* that remembers every state it has seen.
StartVersions(r) == Start(r, "versions", {})

\* (variant: only the state just before is compared)
SuppressedAdjacent(it, v) == it.pulled # <<>> /\ it.state = v

\* A state is suppressed when it equals a state seen before in the run.
Suppressed(it, v) == v \in it.seen

\* One round of the distinct filter over the scan: the next state is
\* yielded unless it is suppressed, and is remembered.
StepVersions(r) ==
    /\ Running(r, "versions")
    /\ IF run[r].src = <<>>
       THEN /\ run' = [run EXCEPT ![r].done = TRUE, ![r].result = run[r].out]
            /\ log' = Logged(r, run[r].out)
            /\ UNCHANGED applier
       ELSE \E v \in ApplierValues(ScanArg(run[r])) :
                /\ applier' = Evaluated(ScanArg(run[r]), v)
                /\ run' = [run EXCEPT ![r] =
                             [ScanNext(run[r], v) EXCEPT
                                 !.out = IF Suppressed(run[r], v)
                                         THEN @ ELSE Append(@, v),
                                 !.seen = @ \cup {v}]]
                /\ UNCHANGED log
    /\ UNCHANGED <<events, callsLeft, enc>>

\* ------------------------------------------------- encounter.rs: the types
Timestamps == 1 .. NumTs           \* EventData.timestamp, in String order
Caregivers == 1 .. NumCaregiver    \* EventData.caregiver_id

\* VisitEvent::CheckIn(EventData) / VisitEvent::CheckOut(EventData)
VisitEvents ==
    [kind : {"CheckIn", "CheckOut"}, caregiver_id : Caregivers,
     timestamp : Timestamps]

\* Period::default(), Encounter::default()
DefaultPeriod == [start |-> None, end |-> None]
DefaultEncounter == [period |-> DefaultPeriod, participant |-> <<>>]

\* ----------------------------------------------------- min_opt / max_opt
\* (variant: the later timestamp is kept)
MinOptKeepsMax(t0, t1) ==
    IF t0 # None THEN (IF t0[1] >= t1 THEN t0[1] ELSE t1) ELSE t1

\* min_opt: String::min(unw0, t1) when t0 is Some(unw0), t1 otherwise.
MinOpt(t0, t1) ==
    IF t0 # None THEN (IF t0[1] <= t1 THEN t0[1] ELSE t1) ELSE t1

\* max_opt: String::max(unw0, t1) when t0 is Some(unw0), t1 otherwise.
MaxOpt(t0, t1) ==
    IF t0 # None THEN (IF t1 >= t0[1] THEN t1 ELSE t0[1]) ELSE t1

\* ------------------------------------------------------ apply_participant
\* participant.into_iter().find(|p| p.id == *id): the index of the first
\* entry of the caregiver, 0 when there is none.
FindParticipant(participant, id) ==
    IF \E i \in DOMAIN participant : participant[i].id = id
    THEN CHOOSE i \in DOMAIN participant :
             /\ participant[i].id = id
             /\ \A j \in 1 .. (i - 1) : participant[j].id # id
    ELSE 0

\* The entry built for the event: merged into the caregiver's entry when
\* there is one, a new entry otherwise.
NewEntry(event, participant) ==
    LET id == event.caregiver_id
        i == FindParticipant(participant, id)
    IN  IF i # 0
        THEN IF event.kind = "CheckIn"
             THEN [id |-> id,
                   start |-> Some(MinOpt(participant[i].start, event.timestamp)),
                   end |-> participant[i].end]
             ELSE [id |-> id,
                   start |-> participant[i].start,
                   end |-> Some(MaxOpt(participant[i].end, event.timestamp))]
        ELSE IF event.kind = "CheckIn"
             THEN [id |-> id, start |-> Some(event.timestamp), end |-> None]
             ELSE [id |-> id, start |-> Some(event.timestamp), end |-> None]

\* The other caregivers' entries: .filter(|p| p.id != *id)
OtherEntries(participant, id) ==
    SelectSeq(participant, LAMBDA p : p.id # id)

\* (variant: the new entry is appended without the old one being removed)
ApplyParticipantNoFilter(event, participant) ==
    Append(participant, NewEntry(event, participant))

\* (variant: the caregiver's entry is updated where it stands)
ApplyParticipantInPlace(event, participant) ==
    LET i == FindParticipant(participant, event.caregiver_id) IN
    IF i = 0
    THEN Append(participant, NewEntry(event, participant))
    ELSE [participant EXCEPT ![i] = NewEntry(event, participant)]

\* apply_participant: the other entries in their order, then the new entry.
ApplyParticipant(event, participant) ==
    Append(OtherEntries(participant, event.caregiver_id),
           NewEntry(event, participant))

\* ------------------------------------------------------------ apply_period
\* (variant: the event's timestamp overwrites the bound)
ApplyPeriodOverwrite(event, existing) ==
    IF event.kind = "CheckIn"
    THEN [start |-> Some(event.timestamp), end |-> existing.end]
    ELSE [start |-> existing.start, end |-> Some(event.timestamp)]

\* apply_period: a CheckIn lowers start, a CheckOut raises end.
ApplyPeriod(event, existing) ==
    IF event.kind = "CheckIn"
    THEN [start |-> Some(MinOpt(existing.start, event.timestamp)),
          end |-> existing.end]
    ELSE [start |-> existing.start,
          end |-> Some(MaxOpt(existing.end, event.timestamp))]

\* ----------------------------------------------------- encounter_projector
\* One step of the applier's fold over a report's visit_events.
FoldVisit(acc, event) ==
    [period |-> ApplyPeriod(event, acc.period),
     participant |-> ApplyParticipant(event, acc.participant)]

\* The encounter projection before any report: state is the accumulator of
\* the projection, acc the accumulator of the applier's fold over the
\* report at hand; visits are the visit events folded so far, of which the
\* first `closed` belong to reports folded to their end.
EncInit ==
    [state |-> DefaultEncounter, acc |-> DefaultEncounter,
     visits |-> <<>>, closed |-> 0]

\* The fold takes the next visit event of the report at hand.
FoldVisitEvent(event) ==
    /\ Len(enc.visits) < MaxVisits
    /\ enc' = [enc EXCEPT !.acc = FoldVisit(enc.acc, event),
                          !.visits = Append(@, event)]
    /\ UNCHANGED <<applier, events, run, callsLeft, log>>

\* The report has no more visit events: the applier returns the fold's
\* accumulator, which becomes the state of the projection; the fold over
\* the next report starts from a clone of it.
EndReport ==
    /\ enc' = [enc EXCEPT !.state = enc.acc, !.closed = Len(enc.visits)]
    /\ UNCHANGED <<applier, events, run, callsLeft, log>>

\* --------------------------------------------------------- specifications
TypeOK ==
    /\ DOMAIN applier \subseteq Entities \X Events
    /\ \A arg \in DOMAIN applier : applier[arg] \in Entities
    /\ events \in [Runs -> SeqsUpTo(Events, MaxLen)]
    /\ \A r \in Runs :
           /\ run[r].op \in {"idle", "stream", "last", "match", "versions"}
           /\ run[r].state \in Entities
           /\ run[r].done \in BOOLEAN
    /\ callsLeft \in [Runs -> 0 .. MaxCalls]

\* One call on one Projector.
Init ==
    /\ applier = <<>>
    /\ events \in [Runs -> SeqsUpTo(Events, MaxLen)]
    /\ events["b"] = <<>>
    /\ run = [r \in Runs |-> IdleRun]
    /\ callsLeft = [r \in Runs |-> IF r = "a" THEN 1 ELSE 0]
    /\ log = <<>>
    /\ enc = EncInit

Next ==
    \E r \in Runs :
        \/ StartStream(r)
        \/ NextStream(r)
        \/ DropStream(r)
        \/ StartLast(r)
        \/ StepLast(r)
        \/ \E m \in Matchers : StartMatch(r, m)
        \/ StepMatch(r)
        \/ StartVersions(r)
        \/ StepVersions(r)

Spec == Init /\ [][Next]_vars

\* Successive calls on one Projector, each handed the same events again.
InitRepeat ==
    /\ applier = <<>>
    /\ events \in [Runs -> SeqsUpTo(Events, MaxLenMulti)]
    /\ events["b"] = <<>>
    /\ run = [r \in Runs |-> IdleRun]
    /\ callsLeft = [r \in Runs |-> IF r = "a" THEN MaxCalls ELSE 0]
    /\ log = <<>>
    /\ enc = EncInit

SpecRepeat == InitRepeat /\ [][Next]_vars

\* Two call sites stream from one Projector, each from its own source,
\* their pulls interleaved.
InitConc ==
    /\ applier = <<>>
    /\ events \in [Runs -> SeqsUpTo(Events, MaxLenMulti)]
    /\ run = [r \in Runs |-> IdleRun]
    /\ callsLeft = [r \in Runs |-> 1]
    /\ log = <<>>
    /\ enc = EncInit

NextConc ==
    \E r \in Runs :
        \/ StartStream(r)
        \/ NextStream(r)
        \/ DropStream(r)

SpecConc == InitConc /\ [][NextConc]_vars

\* Visit reports folded into an Encounter by encounter_projector.
InitEncounter ==
    /\ applier = <<>>
    /\ events = [r \in Runs |-> <<>>]
    /\ run = [r \in Runs |-> IdleRun]
    /\ callsLeft = [r \in Runs |-> 0]
    /\ log = <<>>
    /\ enc = EncInit

NextEncounter ==
    \/ \E event \in VisitEvents : FoldVisitEvent(event)
    \/ EndReport

SpecEncounter == InitEncounter /\ [][NextEncounter]_vars

\* ------------------------------------------------------------ properties
\* The intermediate states s_1, s_2, ... of a fold of the applier over evs
\* from s, as far as the applier's graph determines them.
RECURSIVE FoldStates(_, _)
FoldStates(s, evs) ==
    IF evs = <<>> \/ <<s, Head(evs)>> \notin DOMAIN applier
    THEN <<>>
    ELSE <<applier[<<s, Head(evs)>>]>>
             \o FoldStates(applier[<<s, Head(evs)>>], Tail(evs))

Intermediate(evs) == FoldStates(Default, evs)

Prefix(sq, n) == SubSeq(sq, 1, n)

Drained(r, op) == run[r].op = op /\ run[r].done /\ run[r].src = <<>>

\* C1: a stream_entities iterator driven to its end has yielded exactly one
\* state per event, in event order: s_1 = applier(zero, e_1) and
\* s_i = applier(s_(i-1), e_i); for no events it has yielded nothing.
StreamYieldsRunningFold ==
    \A r \in Runs :
        Drained(r, "stream") =>
            /\ Len(run[r].result) = Len(events[r])
            /\ run[r].result = Intermediate(events[r])

StreamYieldsRunningFoldWitness ==
    /\ Drained("a", "stream")
    /\ Len(events["a"]) >= 3
    /\ run["a"].result[1] # run["a"].result[2]
    /\ events["a"][1] # events["a"][2]

\* C2: project_last_state returns the left fold of the applier over all
\* the events in order from the zero value, and the zero value itself when
\* there are no events.
LastStateIsLeftFold ==
    \A r \in Runs :
        (run[r].op = "last" /\ run[r].done) =>
            LET st == Intermediate(events[r]) IN
            /\ Len(st) = Len(events[r])
            /\ run[r].result =
                   Some(IF st = <<>> THEN Default ELSE st[Len(st)])

LastStateIsLeftFoldWitness ==
    /\ run["a"].op = "last" /\ run["a"].done
    /\ Len(events["a"]) >= 3
    /\ run["a"].result # Some(Default)
    /\ run["a"].result # Some(Intermediate(events["a"])[1])

\* The indices of the intermediate states in st the predicate m holds for.
MatchingAt(st, m) == {i \in 1 .. Len(st) : st[i] \in m}

\* C3: match_from_stream returns the intermediate state of smallest index
\* the predicate holds for, and none when it holds for no intermediate
\* state of the whole sequence.
MatchReturnsFirstMatch ==
    \A r \in Runs :
        (run[r].op = "match" /\ run[r].done) =>
            LET st == Intermediate(events[r])
                idx == MatchingAt(st, run[r].matcher)
            IN  IF run[r].result = None
                THEN Len(st) = Len(events[r]) /\ idx = {}
                ELSE \E k \in idx :
                         /\ \A j \in idx : k <= j
                         /\ run[r].result = Some(st[k])

MatchReturnsFirstMatchWitness ==
    /\ run["a"].op = "match" /\ run["a"].done
    /\ run["a"].result # None
    /\ Len(run["a"].pulled) = 2
    /\ Len(events["a"]) >= 3

\* C4: match_from_stream short-circuits: no event is pulled or applied
\* after an event that produced a matching state, so a call that matched
\* on the state of e_k has pulled exactly e_1 .. e_k, evaluated the applier
\* exactly k times, and left the rest in the source.
MatchShortCircuits ==
    \A r \in Runs :
        run[r].op = "match" =>
            LET st == Intermediate(events[r])
                n == Len(run[r].pulled)
            IN  /\ Len(run[r].applied) = n
                /\ Len(st) >= n
                /\ run[r].pulled \o run[r].src = events[r]
                /\ \A i \in 1 .. (n - 1) : st[i] \notin run[r].matcher
                /\ (run[r].done /\ run[r].result # None) =>
                       /\ n >= 1
                       /\ st[n] \in run[r].matcher

MatchShortCircuitsWitness ==
    /\ run["a"].op = "match" /\ run["a"].done
    /\ run["a"].result # None
    /\ Len(run["a"].pulled) = 2
    /\ Len(run["a"].src) = 2

\* C5: stream_entities is lazy and single-pass: when the caller has pulled
\* k states, exactly the first k events have been pulled from the source
\* and applied, each once and in order, the rest is still in the source,
\* and nothing is pulled before the first state is asked for.
StreamIsLazy ==
    \A r \in Runs :
        run[r].op = "stream" =>
            LET k == Len(run[r].out) IN
            /\ Len(run[r].pulled) = k
            /\ Len(run[r].applied) = k
            /\ k <= Len(events[r])
            /\ run[r].pulled = Prefix(events[r], k)
            /\ run[r].src = SubSeq(events[r], k + 1, Len(events[r]))
            /\ \A i \in 1 .. k :
                   run[r].applied[i] =
                       <<IF i = 1 THEN Default ELSE run[r].out[i - 1],
                         events[r][i]>>

StreamIsLazyWitness ==
    /\ run["a"].op = "stream" /\ run["a"].done
    /\ Len(run["a"].out) = 2
    /\ Len(run["a"].src) = 2

\* The index at which x first occurs in st.
FirstIndex(st, x) ==
    CHOOSE i \in 1 .. Len(st) : st[i] = x /\ \A j \in 1 .. (i - 1) : st[j] # x

\* C6: versions_from_stream yields the intermediate states with duplicates
\* removed, judged against all the states seen before: every distinct
\* intermediate state appears exactly once, in the order of first
\* occurrence.
VersionsGloballyDistinct ==
    \A r \in Runs :
        Drained(r, "versions") =>
            LET st == Intermediate(events[r])
                res == run[r].result
            IN  /\ Len(st) = Len(events[r])
                /\ {res[i] : i \in DOMAIN res} = {st[i] : i \in DOMAIN st}
                /\ \A i, j \in DOMAIN res :
                       i < j => /\ res[i] # res[j]
                                /\ FirstIndex(st, res[i]) < FirstIndex(st, res[j])

VersionsGloballyDistinctWitness ==
    /\ Drained("a", "versions")
    /\ Len(run["a"].result) = 2
    /\ \E i, j, k \in DOMAIN events["a"] :
           LET st == Intermediate(events["a"]) IN
           i < j /\ j < k /\ st[i] = st[k] /\ st[i] # st[j]

\* C7: the predicate is called once on each intermediate state produced,
\* in event order, and never again after it has returned true or after the
\* source has ended; when it holds for no intermediate state the whole
\* sequence is consumed and none is returned.
PredicateOncePerState ==
    \A r \in Runs :
        run[r].op = "match" =>
            LET st == Intermediate(events[r])
                n == Len(run[r].tested)
            IN  /\ n = Len(run[r].pulled)
                /\ n <= Len(st)
                /\ run[r].tested = Prefix(st, n)
                /\ \A i \in 1 .. (n - 1) : run[r].tested[i] \notin run[r].matcher
                /\ run[r].done =>
                       IF n > 0 /\ run[r].tested[n] \in run[r].matcher
                       THEN run[r].result = Some(run[r].tested[n])
                       ELSE /\ run[r].result = None
                            /\ run[r].pulled = events[r]
                            /\ run[r].src = <<>>

PredicateOncePerStateWitness ==
    /\ run["a"].op = "match" /\ run["a"].done
    /\ run["a"].result = None
    /\ run["a"].matcher # {}
    /\ Len(run["a"].tested) >= 3

\* C8: on the same events, the last state stream_entities yields is the
\* state project_last_state returns; on no events stream_entities yields
\* nothing and project_last_state returns the zero value.
LastOfStreamIsLastState ==
    \A i, j \in DOMAIN log :
        /\ (log[i].op = "stream" /\ log[i].events = <<>>) =>
               log[i].result = <<>>
        /\ (log[i].op = "last" /\ log[i].events = <<>>) =>
               log[i].result = Some(Default)
        /\ (/\ log[i].op = "stream" /\ log[j].op = "last"
            /\ log[i].events = log[j].events
            /\ log[i].events # <<>>) =>
               /\ log[i].result # <<>>
               /\ log[j].result = Some(log[i].result[Len(log[i].result)])

LastOfStreamIsLastStateWitness ==
    \E i, j \in DOMAIN log :
        /\ log[i].op = "stream" /\ log[j].op = "last"
        /\ Len(log[i].result) >= 2
        /\ log[i].result[1] # log[i].result[2]
        /\ log[j].result # Some(Default)

\* C9: the Projector carries nothing from one call to the next: successive
\* calls of the same operation on the same events (and predicate) return
\* the same result, and every call starts from the zero value whatever ran
\* before it.
RepeatedCallsAgree ==
    /\ \A i, j \in DOMAIN log :
           (/\ log[i].op = log[j].op
            /\ log[i].events = log[j].events
            /\ log[i].matcher = log[j].matcher) =>
               log[i].result = log[j].result
    /\ \A r \in Runs :
           /\ (run[r].op # "idle" /\ run[r].pulled = <<>>) =>
                  run[r].state = Default
           /\ run[r].applied # <<>> => run[r].applied[1][1] = Default

RepeatedCallsAgreeWitness ==
    /\ Len(log) = 2
    /\ log[1].op = log[2].op
    /\ log[1].matcher = log[2].matcher
    /\ run["a"].done /\ run["a"].state # Default
    /\ Len(events["a"]) >= 2

\* C10: two projections on one Projector, each from its own source, their
\* pulls interleaved in any order, each yield the states they would yield
\* alone: each run's accumulator is its own last state, and the applier is
\* only ever handed the run's own previous state.
InterleavedRunsIndependent ==
    \A r \in Runs :
        run[r].op = "stream" =>
            LET st == Intermediate(events[r])
                k == Len(run[r].out)
            IN  /\ k <= Len(st)
                /\ run[r].out = Prefix(st, k)
                /\ run[r].state = IF k = 0 THEN Default ELSE run[r].out[k]
                /\ Len(run[r].applied) = k
                /\ \A i \in 1 .. k :
                       run[r].applied[i] =
                           <<IF i = 1 THEN Default ELSE st[i - 1],
                             events[r][i]>>

InterleavedRunsIndependentWitness ==
    /\ \A r \in Runs :
           /\ Running(r, "stream")
           /\ Len(run[r].out) = 1
           /\ Len(run[r].src) = 1
    /\ run["a"].state # run["b"].state
    /\ events["a"] # events["b"]

\* The timestamps of the visit events of kind `kind` in vs.
TimesOf(vs, kind) ==
    {vs[i].timestamp : i \in {j \in DOMAIN vs : vs[j].kind = kind}}

\* The least / greatest element of a set of timestamps, None when empty.
MinOf(S) == IF S = {} THEN None ELSE Some(CHOOSE x \in S : \A y \in S : x <= y)
MaxOf(S) == IF S = {} THEN None ELSE Some(CHOOSE x \in S : \A y \in S : x >= y)

\* The period the visit events vs are claimed to give, whatever their order.
PeriodOf(vs) ==
    [start |-> MinOf(TimesOf(vs, "CheckIn")),
     end |-> MaxOf(TimesOf(vs, "CheckOut"))]

\* C11: the projected Encounter's period.start is the least timestamp of
\* the CheckIn events applied (None without any) and period.end the
\* greatest timestamp of the CheckOut events applied (None without any),
\* in whatever order the events arrived.
PeriodIsMinMax ==
    /\ enc.acc.period = PeriodOf(enc.visits)
    /\ enc.state.period = PeriodOf(Prefix(enc.visits, enc.closed))

PeriodIsMinMaxWitness ==
    /\ enc.closed = 3
    /\ enc.visits[1].kind = "CheckIn" /\ enc.visits[2].kind = "CheckIn"
    /\ enc.visits[3].kind = "CheckOut"
    /\ enc.visits[1].timestamp > enc.visits[2].timestamp
    /\ enc.state.period.start = Some(enc.visits[2].timestamp)
    /\ enc.state.period.end = Some(enc.visits[3].timestamp)

\* The visit events of caregiver c in vs, in their order.
VisitsOf(vs, c) == SelectSeq(vs, LAMBDA v : v.caregiver_id = c)

\* C12: for every caregiver with a visit event applied, the Encounter
\* holds an entry whose start is the least timestamp of the caregiver's
\* CheckIn events (None without any) and whose end is the greatest
\* timestamp of the caregiver's CheckOut events (None without any), also
\* when the caregiver's first event is a CheckOut.
ParticipantIsMinMax ==
    \A c \in Caregivers :
        VisitsOf(enc.visits, c) # <<>> =>
            \E i \in DOMAIN enc.acc.participant :
                enc.acc.participant[i] =
                    [id |-> c,
                     start |-> MinOf(TimesOf(VisitsOf(enc.visits, c), "CheckIn")),
                     end |-> MaxOf(TimesOf(VisitsOf(enc.visits, c), "CheckOut"))]

\* C13: match_from_stream never hands the zero value to the predicate as
\* the state before the first event: every state tested is one the applier
\* has just returned for an event, and on no events the call returns none
\* without calling the predicate, also when the zero value satisfies it.
MatchNeverTestsSeed ==
    \A r \in Runs :
        run[r].op = "match" =>
            /\ Len(run[r].tested) = Len(run[r].applied)
            /\ \A i \in DOMAIN run[r].tested :
                   /\ run[r].applied[i] \in DOMAIN applier
                   /\ run[r].tested[i] = applier[run[r].applied[i]]
            /\ (run[r].done /\ events[r] = <<>>) =>
                   run[r].result = None /\ run[r].tested = <<>>

MatchNeverTestsSeedWitness ==
    /\ run["a"].op = "match" /\ run["a"].done
    /\ events["a"] = <<>>
    /\ Default \in run["a"].matcher
    /\ run["a"].result = None

\* The caregiver ids of a participant list, and of the visit events vs.
IdsOf(participant) == {participant[i].id : i \in DOMAIN participant}
CaregiversOf(vs) == {vs[i].caregiver_id : i \in DOMAIN vs}

\* A participant list holds at most one entry per caregiver id.
OneEntryEach(participant) ==
    \A i, j \in DOMAIN participant :
        participant[i].id = participant[j].id => i = j

\* C14: in every Encounter reached from the default by applying visit
\* events, the participant list holds at most one entry per caregiver id,
\* and holds an entry for a caregiver exactly when an event of that
\* caregiver has been applied.
ParticipantOnePerCaregiver ==
    /\ OneEntryEach(enc.acc.participant)
    /\ IdsOf(enc.acc.participant) = CaregiversOf(enc.visits)
    /\ OneEntryEach(enc.state.participant)
    /\ IdsOf(enc.state.participant) =
           CaregiversOf(Prefix(enc.visits, enc.closed))

ParticipantOnePerCaregiverWitness ==
    /\ Len(enc.visits) = 3
    /\ Len(enc.acc.participant) = 2
    /\ Cardinality(CaregiversOf(enc.visits)) = 2

PeriodStep(p, q) ==
    /\ p.start # None => (q.start # None /\ q.start[1] <= p.start[1])
    /\ p.end # None => (q.end # None /\ q.end[1] >= p.end[1])

\* C16: along an encounter projection period.start and period.end never
\* return to None once set, period.start never increases and period.end
\* never decreases; a CheckIn leaves period.end as it was and a CheckOut
\* leaves period.start as it was.
PeriodMonotone ==
    [][/\ PeriodStep(enc.acc.period, enc'.acc.period)
       /\ PeriodStep(enc.state.period, enc'.state.period)
       /\ enc'.visits # enc.visits =>
              IF enc'.visits[Len(enc'.visits)].kind = "CheckIn"
              THEN enc'.acc.period.end = enc.acc.period.end
              ELSE enc'.acc.period.start = enc.acc.period.start]_vars

PeriodMonotoneWitness ==
    /\ Len(enc.visits) = 3
    /\ enc.visits[1].kind = "CheckIn" /\ enc.visits[3].kind = "CheckIn"
    /\ enc.visits[2].kind = "CheckOut"
    /\ enc.visits[3].timestamp > enc.visits[1].timestamp
    /\ enc.acc.period.start = Some(enc.visits[1].timestamp)
    /\ enc.acc.period.end = Some(enc.visits[2].timestamp)
    /\ enc.state.period = DefaultPeriod
====
